---- MODULE Spec2Model ----
(***************************************************************************)
(* Model of the capture pipeline of i_love_canvas: main_async drives       *)
(* URLCaptureService.capture_url over the dashboard, the assignments       *)
(* listing of every course and the assignment detail pages, and PageSaver  *)
(* stores the markup and the screenshot of each page in a directory tree.  *)
(*                                                                         *)
(* Text is modelled as a sequence of atoms.  An atom is one character      *)
(* ("/", "?", "_", a digit) or an indivisible run of letters ("courses",   *)
(* "assignments", a host name, the scheme with its "://").  Every string   *)
(* operation of the code (prefix, substring, strip, split, regular         *)
(* expression) is computed on these sequences; lengths, and what is left   *)
(* of a name that is cut, are counted in characters.                       *)
(***************************************************************************)
EXTENDS Integers, Sequences, FiniteSets, TLC

(***************************************************************************)
(* Strings                                                                 *)
(***************************************************************************)
Digit == {"0", "1", "2", "3", "4", "5", "6", "7", "8", "9"}

\* characters replaced by "_" in folder names: [<>:"/\\|?*\x00-\x1f]
IllegalChars == {"<", ">", ":", "\"", "/", "\\", "|", "?", "*", "\n", "\t"}

\* s.startswith(p)
StartsWith(s, p) == Len(p) <= Len(s) /\ SubSeq(s, 1, Len(p)) = p

\* s.endswith(p)
EndsWith(s, p) == Len(p) <= Len(s) /\ SubSeq(s, Len(s) - Len(p) + 1, Len(s)) = p

\* p in s
Contains(s, p) == \E i \in 1..(Len(s) - Len(p) + 1) : SubSeq(s, i, i + Len(p) - 1) = p

\* s.rstrip(cs)
RECURSIVE RStrip(_, _)
RStrip(s, cs) ==
    IF Len(s) > 0 /\ s[Len(s)] \in cs THEN RStrip(SubSeq(s, 1, Len(s) - 1), cs) ELSE s

\* s.lstrip(cs)
RECURSIVE LStrip(_, _)
LStrip(s, cs) == IF Len(s) > 0 /\ s[1] \in cs THEN LStrip(Tail(s), cs) ELSE s

\* s.strip(cs)
Strip(s, cs) == LStrip(RStrip(s, cs), cs)

\* index of the first atom of s that is in cs, Len(s) + 1 when there is none
FirstIn(s, cs) ==
    IF \E i \in 1..Len(s) : s[i] \in cs
    THEN CHOOSE i \in 1..Len(s) : s[i] \in cs /\ \A j \in 1..(i - 1) : s[j] \notin cs
    ELSE Len(s) + 1

\* s.split(sep): the pieces between the separators, empty pieces included
RECURSIVE Split(_, _)
Split(s, sep) ==
    LET i == FirstIn(s, {sep})
    IN  IF i > Len(s) THEN <<s>>
        ELSE <<SubSeq(s, 1, i - 1)>> \o Split(SubSeq(s, i + 1, Len(s)), sep)

\* [p for p in parts if p]
RECURSIVE NonEmpty(_)
NonEmpty(parts) ==
    IF parts = <<>> THEN <<>>
    ELSE IF Head(parts) = <<>> THEN NonEmpty(Tail(parts))
         ELSE <<Head(parts)>> \o NonEmpty(Tail(parts))

\* sep.join(parts)
RECURSIVE Join(_, _)
Join(parts, sep) ==
    IF parts = <<>> THEN <<>>
    ELSE IF Len(parts) = 1 THEN parts[1]
         ELSE parts[1] \o <<sep>> \o Join(Tail(parts), sep)

\* s.isdigit()
IsDigits(s) == Len(s) > 0 /\ \A i \in 1..Len(s) : s[i] \in Digit

\* length of the run of digits of s that starts at position i (\d+ is greedy)
RECURSIVE DigitRun(_, _)
DigitRun(s, i) == IF i <= Len(s) /\ s[i] \in Digit THEN 1 + DigitRun(s, i + 1) ELSE 0

\* s.replace(a, ''), a one atom
RemoveAll(s, a) == SelectSeq(s, LAMBDA x : x # a)

\* re.sub(r'[<>:"/\\|?*\x00-\x1f]', '_', s)
SanitizeMut(s) == s

Sanitize(s) == [i \in 1..Len(s) |-> IF s[i] \in IllegalChars THEN "_" ELSE s[i]]

\* the characters of the atoms that stand for a run of characters
WordTable ==
    <<
       <<"assignment_", <<"a", "s", "s", "i", "g", "n", "m", "e", "n", "t", "_">>>>,
       <<"assignments", <<"a", "s", "s", "i", "g", "n", "m", "e", "n", "t", "s">>>>,
       <<"course_", <<"c", "o", "u", "r", "s", "e", "_">>>>,
       <<"courses", <<"c", "o", "u", "r", "s", "e", "s">>>>,
       <<"dash", <<"d", "a", "s", "h">>>>,
       <<"http://", <<"h", "t", "t", "p", ":", "/", "/">>>>,
       <<"https://", <<"h", "t", "t", "p", "s", ":", "/", "/">>>>,
       <<"login", <<"l", "o", "g", "i", "n">>>>,
       <<"page", <<"p", "a", "g", "e">>>>,
       <<"sso", <<"s", "s", "o">>>>,
       <<"www.", <<"w", "w", "w", ".">>>>,
       <<"quizzes", <<"q", "u", "i", "z", "z", "e", "s">>>>,
       <<"chrome://", <<"c", "h", "r", "o", "m", "e", ":", "/", "/">>>>,
       <<"about:", <<"a", "b", "o", "u", "t", ":">>>>,
       <<"devtools://", <<"d", "e", "v", "t", "o", "o", "l", "s", ":", "/", "/">>>>
    >>

\* the characters of one atom
Spell(a) ==
    IF \E i \in 1..Len(WordTable) : WordTable[i][1] = a
    THEN WordTable[CHOOSE i \in 1..Len(WordTable) : WordTable[i][1] = a][2]
    ELSE <<a>>

\* the text of s, character by character
RECURSIVE Explode(_)
Explode(s) ==
    IF s = <<>> THEN <<>>
    ELSE IF Len(s) = 1 THEN Spell(s[1])
    ELSE LET h == Len(s) \div 2
         IN  Explode(SubSeq(s, 1, h)) \o Explode(SubSeq(s, h + 1, Len(s)))

\* len(s)
Chars(s) == Len(Explode(s))

\* s[:n]
Truncate(s, n) == IF Chars(s) > n THEN SubSeq(Explode(s), 1, n) ELSE s

(***************************************************************************)
(* URLs                                                                    *)
(***************************************************************************)
Schemes == {"https://", "http://"}

\* urllib.parse.urlparse: netloc and path of a URL
urlparse(url) ==
    LET abs   == Len(url) > 0 /\ url[1] \in Schemes
        rest  == IF abs THEN Tail(url) ELSE url
        n     == FirstIn(rest, {"/", "?", "#"})
        after == IF abs THEN SubSeq(rest, n, Len(rest)) ELSE rest
        p     == FirstIn(after, {"?", "#"})
    IN  [scheme |-> IF abs THEN url[1] ELSE "",
         netloc |-> IF abs THEN SubSeq(rest, 1, n - 1) ELSE <<>>,
         path   |-> SubSeq(after, 1, p - 1)]

\* the segments of a path: [p for p in path.strip('/').split('/') if p]
PathParts(path) == NonEmpty(Split(Strip(path, {"/"}), "/"))

MaxFolderLen == 100
MaxSubfolderLen == 50

url_to_folder_name(url) ==
    LET parsed == urlparse(url)
        host   == IF parsed.netloc # <<>>
                  THEN <<RemoveAll(parsed.netloc, "www.")>> ELSE <<>>
        parts  == IF parsed.path # <<>> /\ parsed.path # <<"/">>
                  THEN PathParts(parsed.path) ELSE <<>>
        folder_parts == host \o SubSeq(parts, 1, IF Len(parts) < 2 THEN Len(parts) ELSE 2)
        folder_name  == IF folder_parts # <<>> THEN Join(folder_parts, "_") ELSE <<"page">>
    IN  RStrip(Truncate(Sanitize(folder_name), MaxFolderLen), {"_"})

url_to_subfolder_name_mut(url) ==
    LET parts == PathParts(urlparse(url).path)
    IN  IF parts = <<>> THEN <<"page">> ELSE parts[Len(parts)]

url_to_subfolder_name(url) ==
    LET parsed == urlparse(url)
        parts  == PathParts(parsed.path)
        n      == Len(parts)
        subfolder ==
            IF n = 1 THEN parts[1]
            ELSE IF n = 2 THEN parts[2]
            ELSE IF IsDigits(parts[n]) /\ parts[n - 1] = <<"assignments">>
                 THEN <<"assignment_">> \o parts[n]
                 ELSE IF parts[n] = <<"assignments">> THEN <<"assignments">>
                      ELSE parts[n]
    IN  IF parsed.path # <<>> /\ parsed.path # <<"/">> /\ n > 0
        THEN RStrip(Truncate(Sanitize(subfolder), MaxSubfolderLen), {"_", " "})
        ELSE <<"page">>

\* is_target_url(url, target_urls)
is_target_url(url, target_urls) ==
    /\ url # <<>>
    /\ \E k \in 1..Len(target_urls) :
          LET target == target_urls[k]
              pu == urlparse(url)
              pt == urlparse(target)
          IN  /\ target # <<>>
              /\ pu.netloc = pt.netloc
              /\ \/ pt.path = <<"/">> \/ pt.path = <<>>
                 \/ StartsWith(RStrip(pu.path, {"/"}), RStrip(pt.path, {"/"}))

\* position and captured id of the first match of /courses/(\d+) followed by
\* the atoms of `tail' in s; pos = 0 when there is no match
CourseMatch(s, tail) ==
    LET ok(i) == /\ i + 2 <= Len(s)
                 /\ SubSeq(s, i, i + 2) = <<"/", "courses", "/">>
                 /\ DigitRun(s, i + 3) > 0
                 /\ StartsWith(SubSeq(s, i + 3 + DigitRun(s, i + 3), Len(s)), tail)
    IN  IF \E i \in 1..Len(s) : ok(i)
        THEN LET i == CHOOSE i \in 1..Len(s) : ok(i) /\ \A j \in 1..(i - 1) : ~ok(j)
             IN  [pos |-> i, id |-> SubSeq(s, i + 3, i + 2 + DigitRun(s, i + 3))]
        ELSE [pos |-> 0, id |-> <<>>]

\* re.search(r'/assignments/(\d+)$', url): the captured id, <<>> when no match
AssignmentIdAtEnd(url) ==
    LET ok(i) == /\ i + 2 <= Len(url)
                 /\ SubSeq(url, i, i + 2) = <<"/", "assignments", "/">>
                 /\ DigitRun(url, i + 3) > 0
                 /\ i + 2 + DigitRun(url, i + 3) = Len(url)
    IN  IF \E i \in 1..Len(url) : ok(i)
        THEN LET i == CHOOSE i \in 1..Len(url) : ok(i)
             IN  SubSeq(url, i + 3, Len(url))
        ELSE <<>>

\* all matches of r'/courses/(\d+)/assignments/(\d+)' in s, as <<course, assignment>>
AssignmentMatches(s) ==
    { <<SubSeq(s, i + 3, i + 2 + DigitRun(s, i + 3)),
        SubSeq(s, i + 6 + DigitRun(s, i + 3),
               i + 5 + DigitRun(s, i + 3) + DigitRun(s, i + 6 + DigitRun(s, i + 3)))>> :
      i \in { j \in 1..Len(s) :
                /\ j + 2 <= Len(s)
                /\ SubSeq(s, j, j + 2) = <<"/", "courses", "/">>
                /\ DigitRun(s, j + 3) > 0
                /\ StartsWith(SubSeq(s, j + 3 + DigitRun(s, j + 3), Len(s)),
                              <<"/", "assignments", "/">>)
                /\ DigitRun(s, j + 6 + DigitRun(s, j + 3)) > 0 } }

(***************************************************************************)
(* Ordering of strings, for sorted()                                       *)
(***************************************************************************)
\* the atoms in the order of their text
AtomOrder ==
    << "#", "/", "0", "1", "2", "3", "4", "5", "6", "7", "8", "9", "?", "_",
       "assignment_", "assignments", "course_", "courses", "dash", "h",
       "http://", "https://", "login", "page", "q", "sso", "www." >>

AtomRank(a) == CHOOSE i \in 1..Len(AtomOrder) : AtomOrder[i] = a

\* s < t
RECURSIVE StrLess(_, _)
StrLess(s, t) ==
    IF t = <<>> THEN FALSE
    ELSE IF s = <<>> THEN TRUE
    ELSE IF s[1] = t[1] THEN StrLess(Tail(s), Tail(t))
    ELSE AtomRank(s[1]) < AtomRank(t[1])

\* a variant that sorts in descending order
SortedMut(S) ==
    CHOOSE f \in [1..Cardinality(S) -> S] :
        \A i, j \in 1..Cardinality(S) : i < j => StrLess(f[j], f[i])

\* sorted(list(S))
RECURSIVE Sorted(_)
Sorted(S) ==
    IF S = {} THEN <<>>
    ELSE LET m == CHOOSE x \in S : \A y \in S \ {x} : StrLess(x, y)
         IN  <<m>> \o Sorted(S \ {m})

(***************************************************************************)
(* The web site behind the browser                                         *)
(***************************************************************************)
Origin == <<"https://", "h">>
RootUrl == Origin \o <<"/">>
DashUrl == Origin \o <<"/", "dash">>
LoginUrl == Origin \o <<"/", "login">>
SsoUrl == <<"https://", "sso", "/", "login">>

\* the dashboard URLs a configuration may name as target_urls[0]
DashboardUrls == {RootUrl, DashUrl}

CourseHref(c) == <<"/", "courses", "/", c>>
DetailUrl(c, a) == Origin \o CourseHref(c) \o <<"/", "assignments", "/", a>>

\* the anchors of the "upcoming assignments" group of the listing of course 1
ListingAnchors ==
    { << DetailUrl("1", "5"), DetailUrl("1", "6") >>,
      << DetailUrl("1", "6"), DetailUrl("1", "5") >>,
      << DetailUrl("1", "5") \o <<"?", "q">> >>,
      << DetailUrl("1", "5") \o <<"?", "q">>, DetailUrl("1", "6") \o <<"?", "q">> >> }

\* markup: group = it has the div assignment_group_upcoming_assignments,
\* anchors = the hrefs of the <a> inside that div (of the whole page when
\* there is no such div), origin = DEEP_LINKING_POST_MESSAGE_ORIGIN, script =
\* the text of the page outside the anchors (inline script data)
NoMarkup == [kind |-> "none", group |-> FALSE, anchors |-> <<>>, origin |-> <<>>, script |-> <<>>]
OtherMarkup == [kind |-> "other", group |-> FALSE, anchors |-> <<>>, origin |-> <<>>, script |-> <<>>]
Screenshot == [kind |-> "png", group |-> FALSE, anchors |-> <<>>, origin |-> <<>>, script |-> <<>>]

\* what page.content() returns for a page whose URL is f
PageContent(f, anchors1) ==
    LET parsed == urlparse(f)
        parts  == PathParts(parsed.path)
    IN  IF parsed.netloc # <<"h">> THEN OtherMarkup
        ELSE IF parts = <<>> \/ parts = << <<"dash">> >>
        THEN [kind |-> "dashboard", group |-> FALSE,
              anchors |-> <<CourseHref("1"), CourseHref("2")>>, origin |-> Origin, script |-> <<>>]
        ELSE IF Len(parts) = 3 /\ parts[1] = <<"courses">> /\ parts[3] = <<"assignments">>
        THEN IF parts[2] = <<"1">>
             THEN [kind |-> "listing", group |-> TRUE, anchors |-> anchors1,
                   origin |-> Origin, script |-> <<>>]
             ELSE [kind |-> "listing", group |-> FALSE, anchors |-> <<>>,
                   origin |-> Origin, script |-> <<>>]
        ELSE IF Len(parts) = 4 /\ parts[1] = <<"courses">> /\ parts[3] = <<"assignments">>
        THEN [kind |-> "detail", group |-> FALSE, anchors |-> <<>>, origin |-> Origin, script |-> <<>>]
        ELSE OtherMarkup

(***************************************************************************)
(* CourseURLExtractor                                                      *)
(***************************************************************************)
Range(f) == { f[i] : i \in DOMAIN f }

\* _extract_course_url_from_href: re.match(r'/courses/(\d+)', path)
extract_course_url_from_href(href) ==
    LET path == IF Len(href) > 0 /\ href[1] \in Schemes THEN urlparse(href).path ELSE href
        m    == CourseMatch(path, <<>>)
    IN  IF m.pos = 1 THEN <<"/", "courses", "/">> \o m.id ELSE <<>>

\* every /courses/(\d+) of the text of the page
\* a variant that reads no text
CoursePathsInMut(s) == {}

RECURSIVE CoursePathsIn(_)
CoursePathsIn(s) ==
    LET m == CourseMatch(s, <<>>)
    IN  IF m.pos = 0 THEN {}
        ELSE {<<"/", "courses", "/">> \o m.id}
             \cup CoursePathsIn(SubSeq(s, m.pos + 3 + Len(m.id), Len(s)))

extract_course_urls(markup) ==
    Sorted(({ extract_course_url_from_href(markup.anchors[i]) :
                i \in 1..Len(markup.anchors) } \ {<<>>})
           \cup UNION { CoursePathsIn(markup.anchors[i]) : i \in 1..Len(markup.anchors) }
           \cup CoursePathsIn(markup.script))

\* _extract_base_url
extract_base_url(markup) ==
    IF markup.origin # <<>> THEN markup.origin
    ELSE IF \E i \in 1..Len(markup.anchors) : markup.anchors[i][1] \in Schemes
    THEN LET i == CHOOSE i \in 1..Len(markup.anchors) :
                     /\ markup.anchors[i][1] \in Schemes
                     /\ \A j \in 1..(i - 1) : markup.anchors[j][1] \notin Schemes
             parsed == urlparse(markup.anchors[i])
         IN  <<parsed.scheme>> \o parsed.netloc
    ELSE <<"https://", "sit.instructure.com">>

\* generate_assignments_urls: urljoin(base_url, course_url + '/assignments')
RECURSIVE generate_assignments_urls(_, _)
generate_assignments_urls(course_urls, base_url) ==
    IF course_urls = <<>> THEN <<>>
    ELSE LET clean == RStrip(RStrip(Head(course_urls), {"/"}), {"/", "pages"})
             m     == CourseMatch(clean, <<>>)
             rest  == generate_assignments_urls(Tail(course_urls), base_url)
         IN  IF m.pos = 1 /\ Len(clean) = 3 + Len(m.id)
             THEN <<base_url \o clean \o <<"/", "assignments">> >> \o rest
             ELSE rest

(***************************************************************************)
(* AssignmentDetailCapture.extract_assignment_urls                         *)
(***************************************************************************)
\* the URL added for one anchor of the group, <<>> when it adds none
AnchorUrl(href, base_url) ==
    IF AssignmentMatches(href) = {} THEN <<>>
    ELSE IF href[1] = "/" THEN base_url \o href
    ELSE IF href[1] \notin Schemes
    THEN IF base_url # <<>> THEN base_url \o <<"/">> \o href ELSE <<>>
    ELSE href

extract_assignment_urls(markup) ==
    IF ~markup.group THEN <<>>
    ELSE LET as == markup.anchors
             abs == { i \in 1..Len(as) : as[i] # <<>> /\ as[i][1] \in Schemes }
             first == CHOOSE i \in abs : \A j \in abs : i <= j
             base_url ==
                 IF abs = {} THEN <<>>
                 ELSE <<urlparse(as[first]).scheme>> \o urlparse(as[first]).netloc
             from_links == { AnchorUrl(as[i], base_url) : i \in 1..Len(as) } \ {<<>>}
             from_text  == { base_url \o <<"/", "courses", "/">> \o m[1]
                               \o <<"/", "assignments", "/">> \o m[2] :
                             m \in UNION { AssignmentMatches(as[i]) : i \in 1..Len(as) } }
         IN  Sorted(from_links \cup from_text)

(***************************************************************************)
(* PageSaver: where a capture is stored                                    *)
(***************************************************************************)
\* a file of the output directory: the directories below output_dir, and the
\* file name <timestamp>.<ext>
NoPath == [dir |-> <<>>, ts |-> -1, ext |-> "none"]

\* clock ticks per second: datetime.now() has a finer resolution than the
\* seconds that strftime("%Y%m%d_%H%M%S") keeps
TicksPerSecond == 2

\* timestamp.strftime("%Y%m%d_%H%M%S")
strftime(t) == t \div TicksPerSecond

MaxCourseNameLen == 100

\* the name of the directory of a capture below its parent's directory
SubfolderName(url, course_name) ==
    IF course_name # <<>>
    THEN Truncate(Sanitize(course_name), MaxCourseNameLen)
    ELSE LET m == CourseMatch(urlparse(url).path, <<"/", "assignments">>)
         IN  IF Contains(url, <<"/", "assignments">>) /\ m.pos > 0
             THEN <<"course_">> \o m.id
             ELSE url_to_subfolder_name(url)

\* the name of the directory of a capture that has no parent
FolderName(url, course_name) ==
    IF course_name # <<>>
    THEN Truncate(Sanitize(course_name), MaxCourseNameLen)
    ELSE url_to_folder_name(url)

\* a variant that takes the clock again for the name of the screenshot
generate_file_paths_mut(url, timestamp, parent_html_file, course_name) ==
    LET url_dir == IF parent_html_file # NoPath
                   THEN Append(parent_html_file.dir, SubfolderName(url, course_name))
                   ELSE <<FolderName(url, course_name)>>
    IN  [html |-> [dir |-> url_dir, ts |-> strftime(timestamp), ext |-> "html"],
         png  |-> [dir |-> url_dir, ts |-> strftime(timestamp + 1), ext |-> "png"]]

generate_file_paths(url, timestamp, parent_html_file, course_name) ==
    LET url_dir == IF parent_html_file # NoPath
                   THEN Append(parent_html_file.dir, SubfolderName(url, course_name))
                   ELSE <<FolderName(url, course_name)>>
    IN  [html |-> [dir |-> url_dir, ts |-> strftime(timestamp), ext |-> "html"],
         png  |-> [dir |-> url_dir, ts |-> strftime(timestamp), ext |-> "png"]]

\* url_dir.mkdir(parents=True, exist_ok=True)
Mkdir(ds, d) == ds \cup { SubSeq(d, 1, k) : k \in 0..Len(d) }

\* open(path, 'w') and write: an existing file of that name is replaced
WriteFile(fs, path, content) ==
    { e \in fs : e.path # path } \cup {[path |-> path, content |-> content]}

Exists(fs, path) == \E e \in fs : e.path = path

ReadFile(fs, path) ==
    IF Exists(fs, path) THEN (CHOOSE e \in fs : e.path = path).content ELSE NoMarkup

(***************************************************************************)
(* URLCaptureService.capture_url: the validation of the final page         *)
(***************************************************************************)
\* a variant without the check of the host
SameHostMut(url, current_url) == TRUE
\* parsed_current.netloc == parsed_original.netloc
SameHost(url, current_url) == urlparse(current_url).netloc = urlparse(url).netloc

\* the path check: rejected when both paths are non-empty and the current one
\* does not start with the original one
PathContinues(url, current_url) ==
    LET original_path == RStrip(urlparse(url).path, {"/"})
        current_path  == RStrip(urlparse(current_url).path, {"/"})
    IN  ~(original_path # <<>> /\ current_path # <<>>
          /\ ~StartsWith(current_path, original_path))

\* the assignments check: rejected when the original path has /assignments
\* and the current one has not
StaysInAssignments(url, current_url) ==
    LET original_path == RStrip(urlparse(url).path, {"/"})
        current_path  == RStrip(urlparse(current_url).path, {"/"})
    IN  ~(Contains(original_path, <<"/", "assignments">>)
          /\ ~Contains(current_path, <<"/", "assignments">>))

\* a variant that checks the host only
RedirectAcceptedMut(url, current_url) == SameHost(url, current_url)
RedirectAccepted(url, current_url) ==
    /\ SameHost(url, current_url)
    /\ PathContinues(url, current_url)
    /\ StaysInAssignments(url, current_url)

(***************************************************************************)
(* State                                                                   *)
(***************************************************************************)
VARIABLES
    config,     \* the loaded configuration: target_urls, clean_output_on_start
    anchors1,   \* the anchors the site shows in the listing of course 1
    run,        \* number of invocations of main_async started
    pc,         \* where main_async is: idle, dashboard, listings, details, done
    now,        \* the clock, in ticks
    faults,     \* failures and stray redirects the environment has produced
    quick,      \* page loads that took less than a second
    files,      \* the files below output_dir, with their content
    dirs,       \* the directories below output_dir
    cap,        \* the running call of capture_url
    batch,      \* the running batch loop: its URLs, index, results, parent file
    attempts,   \* history: every finished call of capture_url
    writeLog,   \* history: every file opened for writing, and by which call
    returns,    \* history: every return of a batch function
    summary,    \* the final summary of the current invocation
    call,       \* the last call of a function of the click flow or of a helper
    click,      \* the click flow: browser history, loop positions, completed children
    mon         \* the monitor: WebMonitor.running, PageCapture.captured_urls, its rounds

vars == <<config, anchors1, run, pc, now, faults, quick, files, dirs, cap, batch,
          attempts, writeLog, returns, summary, call, click, mon>>

\* bounds of the model
MaxRuns == 1
MaxFaults == 1
MaxQuick == 1

\* check_interval of _wait_for_target_page, seconds
CheckInterval == 5
\* redirect_timeout when the configuration does not set it, milliseconds
RedirectTimeout == 30000

Exceptions == {"BrowserNotRunningError", "PageLoadError", "SaveError"}

NoResult == [kind |-> "none", url |-> <<>>, html_file |-> NoPath,
             screenshot_file |-> NoPath, file_path |-> NoPath]

IdleCap == [pc |-> "idle", url |-> <<>>, parent |-> NoPath, course_name |-> <<>>,
            timestamp |-> 0, page |-> <<>>, elapsed |-> 0, timedOut |-> FALSE,
            html_path |-> NoPath, screenshot_path |-> NoPath,
            made |-> {}, wrote |-> {}, read |-> <<>>, open |-> {}, result |-> NoResult]

NoBatch == [urls |-> <<>>, i |-> 0, results |-> <<>>, parent |-> NoPath, pending |-> <<>>]

NoSummary == [printed |-> FALSE, listings |-> 0, details |-> 0]

\* no function has been called
NoCall == [op |-> "none", arg |-> <<>>, out |-> <<>>]

\* the monitor has not been started: WebMonitor.__init__, PageCapture.__init__
NoMon == [pc |-> "idle", running |-> TRUE, captured_urls |-> {}, day |-> 1, rounds |-> 0,
          tabs |-> <<>>, calls |-> <<>>, success |-> FALSE]

\* the click flow has not been started
NoClick == [pc |-> "idle", hist |-> <<>>, i |-> 0, j |-> 0, links |-> 0,
            from |-> <<>>, levels |-> 0, done |-> <<>>]

\* capture_url is called: timestamp = datetime.now()
NewCall(url, parent, course_name, t) ==
    [IdleCap EXCEPT !.pc = "open", !.url = url, !.parent = parent,
                    !.course_name = course_name, !.timestamp = t]

\* the record kept of a finished call
Attempt(c, result) ==
    [run |-> run, phase |-> pc, parent |-> c.parent, index |-> batch.i, url |-> c.url,
     final |-> c.page, timedOut |-> c.timedOut, kind |-> result.kind,
     html_path |-> c.html_path, screenshot_path |-> c.screenshot_path,
     made |-> c.made, wrote |-> c.wrote]

\* capture_url ends with `result' (a CaptureResult, None or an exception),
\* after page.close() and session.close()
Finish(c, result) ==
    /\ cap' = [c EXCEPT !.pc = "returned", !.result = result, !.open = {}]
    /\ attempts' = Append(attempts, Attempt(c, result))

Raised(kind, path) == [NoResult EXCEPT !.kind = kind, !.file_path = path]

Init ==
    /\ config \in [target_urls : { <<u>> : u \in DashboardUrls },
                   clean_output_on_start : BOOLEAN]
    /\ anchors1 \in ListingAnchors
    /\ run = 0
    /\ pc = "idle"
    /\ now = 0
    /\ faults = 0
    /\ quick = 0
    /\ files = {}
    /\ dirs = {<<>>}
    /\ cap = IdleCap
    /\ batch = NoBatch
    /\ attempts = <<>>
    /\ writeLog = <<>>
    /\ returns = <<>>
    /\ summary = NoSummary
    /\ call = NoCall
    /\ click = NoClick
    /\ mon = NoMon

(***************************************************************************)
(* capture_url, step by step                                               *)
(***************************************************************************)
\* where the browser may be after page.goto(url): the page asked for, the
\* login page of another host, the root of the site, the login page of the site
Landings(url) == {url, SsoUrl, RootUrl, LoginUrl}

\* how long goto and the wait for network idle take, in ticks
LoadTicks == {1, TicksPerSecond}

\* while the wait sleeps a login bounce may bring the page to the URL asked for
Drift(page, url) == IF page = SsoUrl THEN {page, url} ELSE {page}

\* BrowserSession.open_url up to the first poll of _wait_for_target_page
OpenUrl ==
    /\ cap.pc = "open"
    /\ \/ \E l \in Landings(cap.url), d \in LoadTicks :
            /\ l # cap.url => faults < MaxFaults
            /\ d < TicksPerSecond => quick < MaxQuick
            /\ faults' = IF l # cap.url THEN faults + 1 ELSE faults
            /\ quick' = IF d < TicksPerSecond THEN quick + 1 ELSE quick
            /\ now' = now + d
            /\ cap' = [cap EXCEPT !.pc = "wait", !.page = l, !.open = {"session", "page"}]
            /\ UNCHANGED attempts
       \/ \E e \in {"BrowserNotRunningError", "PageLoadError"} :
            /\ faults < MaxFaults
            /\ faults' = faults + 1
            /\ Finish(cap, Raised(e, NoPath))
            /\ UNCHANGED <<now, quick>>
    /\ UNCHANGED <<call, click, mon, config, anchors1, run, pc, files, dirs, batch, writeLog, returns,
                   summary>>

\* a variant without the ceiling
ExpiredMut(elapsed) == FALSE
\* elapsed >= timeout / 1000.0
Expired(elapsed) == elapsed * 1000 >= RedirectTimeout

\* one poll of BrowserSession._wait_for_target_page
WaitPoll ==
    /\ cap.pc = "wait"
    /\ IF config.target_urls = <<>> \/ is_target_url(cap.page, config.target_urls)
       THEN cap' = [cap EXCEPT !.pc = "validate"] /\ now' = now
       ELSE IF Expired(cap.elapsed)
       THEN cap' = [cap EXCEPT !.pc = "validate", !.timedOut = TRUE] /\ now' = now
       ELSE \E p \in Drift(cap.page, cap.url) :
               /\ cap' = [cap EXCEPT !.elapsed = @ + CheckInterval, !.page = p]
               /\ now' = now + CheckInterval * TicksPerSecond
    /\ UNCHANGED <<call, click, mon, config, anchors1, run, pc, faults, quick, files, dirs, batch,
                   attempts, writeLog, returns, summary>>

\* the checks of the final URL, then PageSaver.generate_file_paths
Validate ==
    /\ cap.pc = "validate"
    /\ IF RedirectAccepted(cap.url, cap.page)
       THEN LET paths == generate_file_paths(cap.url, cap.timestamp, cap.parent,
                                             cap.course_name)
            IN  /\ cap' = [cap EXCEPT !.pc = "save_html", !.html_path = paths.html,
                                      !.screenshot_path = paths.png,
                                      !.made = {paths.html.dir}]
                /\ dirs' = Mkdir(dirs, paths.html.dir)
                /\ UNCHANGED attempts
       ELSE /\ Finish(cap, [NoResult EXCEPT !.kind = "None"])
            /\ UNCHANGED dirs
    /\ UNCHANGED <<call, click, mon, config, anchors1, run, pc, now, faults, quick, files, batch,
                   writeLog, returns, summary>>

\* PageSaver.save_html
SaveHtml ==
    /\ cap.pc = "save_html"
    /\ \/ /\ files' = WriteFile(files, cap.html_path, PageContent(cap.page, anchors1))
          /\ writeLog' = Append(writeLog, [att |-> Len(attempts) + 1,
                                           path |-> cap.html_path])
          /\ cap' = [cap EXCEPT !.pc = "save_screenshot", !.read = cap.page,
                                !.wrote = @ \cup {cap.html_path}]
          /\ UNCHANGED <<faults, attempts>>
       \/ /\ faults < MaxFaults
          /\ faults' = faults + 1
          /\ Finish(cap, Raised("SaveError", cap.html_path))
          /\ UNCHANGED <<files, writeLog>>
    /\ UNCHANGED <<call, click, mon, config, anchors1, run, pc, now, quick, dirs, batch, returns, summary>>

\* a variant that rolls the HTML file back
AfterScreenshotErrorMut(fs, c) == { e \in fs : e.path # c.html_path }
\* what capture_url does to the files when save_screenshot has raised: nothing
AfterScreenshotError(fs, c) == fs

\* PageSaver.save_screenshot and the end of capture_url
SaveScreenshot ==
    /\ cap.pc = "save_screenshot"
    /\ \/ /\ files' = WriteFile(files, cap.screenshot_path, Screenshot)
          /\ writeLog' = Append(writeLog, [att |-> Len(attempts) + 1,
                                           path |-> cap.screenshot_path])
          /\ Finish([cap EXCEPT !.wrote = @ \cup {cap.screenshot_path}],
                    [NoResult EXCEPT !.kind = "CaptureResult", !.url = cap.page,
                                     !.html_file = cap.html_path,
                                     !.screenshot_file = cap.screenshot_path])
          /\ UNCHANGED faults
       \/ /\ faults < MaxFaults
          /\ faults' = faults + 1
          /\ files' = AfterScreenshotError(files, cap)
          /\ Finish(cap, Raised("SaveError", cap.screenshot_path))
          /\ UNCHANGED writeLog
    /\ UNCHANGED <<call, click, mon, config, anchors1, run, pc, now, quick, dirs, batch, returns, summary>>

(***************************************************************************)
(* main_async and the batch loops                                          *)
(***************************************************************************)
\* clean_output_dir: everything below output_dir is deleted
clean_output_dir(fs) == {}

\* main_async up to the call of capture_url(dashboard_url)
StartRun ==
    /\ pc \in {"idle", "done"}
    /\ run < MaxRuns
    /\ config.target_urls # <<>> /\ config.target_urls[1] # <<>>
    /\ run' = run + 1
    /\ pc' = "dashboard"
    /\ files' = IF config.clean_output_on_start THEN clean_output_dir(files) ELSE files
    /\ dirs' = IF config.clean_output_on_start THEN {<<>>} ELSE dirs
    /\ cap' = NewCall(config.target_urls[1], NoPath, <<>>, now)
    /\ batch' = NoBatch
    /\ summary' = NoSummary
    /\ UNCHANGED <<call, click, mon, config, anchors1, now, faults, quick, attempts, writeLog, returns>>

\* the start of a batch loop over `urls', children of the file `parent'
NewBatch(urls, parent, pending) ==
    [urls |-> urls, i |-> 0, results |-> <<>>, parent |-> parent, pending |-> pending]

\* step 4 of main_async: the dashboard capture has returned; on success
\* capture_from_dashboard_html reads the file and prepares its loop
DashboardReturn ==
    /\ pc = "dashboard"
    /\ cap.pc = "returned"
    /\ cap' = IdleCap
    /\ IF cap.result.kind = "CaptureResult"
       THEN LET markup == ReadFile(files, cap.result.html_file)
                course_urls == extract_course_urls(markup)
                assignments_urls ==
                    IF course_urls = <<>> THEN <<>>
                    ELSE generate_assignments_urls(course_urls, extract_base_url(markup))
            IN  /\ pc' = "listings"
                /\ batch' = NewBatch(assignments_urls, cap.result.html_file, <<>>)
       ELSE /\ pc' = "done"
            /\ UNCHANGED batch
    /\ UNCHANGED <<call, click, mon, config, anchors1, run, now, faults, quick, files, dirs, attempts,
                   writeLog, returns, summary>>

\* a variant in which a failed child ends the loop
AfterChildMut(b, result) ==
    IF result.kind = "CaptureResult"
    THEN [b EXCEPT !.results = Append(@, result)]
    ELSE [b EXCEPT !.i = Len(b.urls)]
\* the batch after capture_url has ended with `result' for child batch.i
AfterChild(b, result) ==
    IF result.kind = "CaptureResult"
    THEN [b EXCEPT !.results = Append(@, result)]
    ELSE b

\* the record kept of the return of a batch function
Return(b) == [run |-> run, phase |-> pc, parent |-> b.parent, urls |-> b.urls,
              results |-> b.results]

\* **/course_*/**/*.html: the HTML files below a directory named course_*
Glob(fs) ==
    { e.path : e \in { f \in fs : /\ f.path.ext = "html"
                                  /\ \E k \in 1..Len(f.path.dir) :
                                        f.path.dir[k][1] = "course_" } }

\* the files of the glob that contain the id of the upcoming group
assignments_files(fs) == { p \in Glob(fs) : ReadFile(fs, p).group }

\* the orders in which the glob may list the files of S
Orders(S) ==
    { o \in [1..Cardinality(S) -> S] : \A i, j \in 1..Cardinality(S) : i # j => o[i] # o[j] }

\* a variant in which the loop ends after its first child
ExhaustedMut(b) == b.i >= 1 \/ b.urls = <<>>
\* `for i, url in enumerate(urls, 1)' has no next element
Exhausted(b) == b.i >= Len(b.urls)

\* the loop of capture_from_dashboard_html: the next child, or the return and
\* step 6 of main_async up to the glob of capture_all_from_output_dir
ListingStep ==
    /\ pc = "listings"
    /\ cap.pc = "idle"
    /\ \/ /\ ~Exhausted(batch)
          /\ batch' = [batch EXCEPT !.i = @ + 1]
          /\ cap' = NewCall(batch.urls[batch.i + 1], batch.parent, <<>>, now)
          /\ UNCHANGED <<pc, returns, summary>>
       \/ /\ Exhausted(batch)
          /\ returns' = Append(returns, Return(batch))
          /\ summary' = [summary EXCEPT !.listings = Len(batch.results)]
          /\ pc' = "details"
          /\ \E o \in Orders(assignments_files(files)) :
                batch' = NewBatch(<<>>, NoPath, o)
          /\ UNCHANGED cap
    /\ UNCHANGED <<call, click, mon, config, anchors1, run, now, faults, quick, files, dirs, attempts,
                   writeLog>>

\* a listing capture has returned to the loop of capture_from_dashboard_html
ListingReturn ==
    /\ pc = "listings"
    /\ cap.pc = "returned"
    /\ batch' = AfterChild(batch, cap.result)
    /\ cap' = IdleCap
    /\ UNCHANGED <<call, click, mon, config, anchors1, run, pc, now, faults, quick, files, dirs, attempts,
                   writeLog, returns, summary>>

\* a variant that passes no assignment id
DetailCourseNameMut(url) == <<>>
\* the assignment id that capture_from_assignments_html passes as _course_name
DetailCourseName(url) == AssignmentIdAtEnd(url)

\* the loops of capture_all_from_output_dir and capture_from_assignments_html:
\* the next child, the return of the inner loop, the next file, or the end
DetailStep ==
    /\ pc = "details"
    /\ cap.pc = "idle"
    /\ \/ /\ ~Exhausted(batch)
          /\ batch' = [batch EXCEPT !.i = @ + 1]
          /\ cap' = NewCall(batch.urls[batch.i + 1], batch.parent,
                            DetailCourseName(batch.urls[batch.i + 1]), now)
          /\ UNCHANGED <<pc, returns, summary>>
       \/ /\ Exhausted(batch)
          /\ batch.parent # NoPath
          /\ returns' = Append(returns, Return(batch))
          /\ summary' = [summary EXCEPT !.details = @ + Len(batch.results)]
          /\ batch' = NewBatch(<<>>, NoPath, batch.pending)
          /\ UNCHANGED <<pc, cap>>
       \/ /\ batch.parent = NoPath
          /\ batch.pending # <<>>
          /\ batch' = NewBatch(extract_assignment_urls(ReadFile(files, Head(batch.pending))),
                               Head(batch.pending), Tail(batch.pending))
          /\ UNCHANGED <<pc, cap, returns, summary>>
       \/ /\ batch.parent = NoPath
          /\ batch.pending = <<>>
          /\ summary' = [summary EXCEPT !.printed = TRUE]
          /\ pc' = "done"
          /\ UNCHANGED <<cap, batch, returns>>
    /\ UNCHANGED <<call, click, mon, config, anchors1, run, now, faults, quick, files, dirs, attempts,
                   writeLog>>

\* a detail capture has returned to the loop of capture_from_assignments_html
DetailReturn ==
    /\ pc = "details"
    /\ cap.pc = "returned"
    /\ batch' = AfterChild(batch, cap.result)
    /\ cap' = IdleCap
    /\ UNCHANGED <<call, click, mon, config, anchors1, run, pc, now, faults, quick, files, dirs, attempts,
                   writeLog, returns, summary>>

Next ==
    \/ StartRun
    \/ OpenUrl
    \/ WaitPoll
    \/ Validate
    \/ SaveHtml
    \/ SaveScreenshot
    \/ DashboardReturn
    \/ ListingStep
    \/ ListingReturn
    \/ DetailStep
    \/ DetailReturn

Spec == Init /\ [][Next]_vars

\* the browser is controlled from outside: between the reading of page.url
\* for the validation and the end of capture_url the page may be redirected
\* (an expired session, a script of the page)
Redirect ==
    /\ cap.pc \in {"validate", "save_html", "save_screenshot"}
    /\ faults < MaxFaults
    /\ faults' = faults + 1
    /\ \E p \in Landings(cap.url) \ {cap.page} : cap' = [cap EXCEPT !.page = p]
    /\ UNCHANGED <<call, click, mon, config, anchors1, run, pc, now, quick, files, dirs, batch,
                   attempts, writeLog, returns, summary>>

\* the run is interrupted while capture_url is suspended in an await:
\* CancelledError and KeyboardInterrupt are no Exception, no except branch of
\* capture_url or of main_async runs, and main ends
Cancel ==
    /\ cap.pc \in {"wait", "save_html", "save_screenshot"}
    /\ faults < MaxFaults
    /\ faults' = faults + 1
    /\ cap' = [cap EXCEPT !.pc = "cancelled"]
    /\ pc' = "done"
    /\ UNCHANGED <<call, click, mon, config, anchors1, run, now, quick, files, dirs, batch,
                   attempts, writeLog, returns, summary>>

\* the coroutine of _wait_for_target_page is resumed after each
\* asyncio.sleep(check_interval): a poll that can be made is made
LiveInit == Init /\ anchors1 = << DetailUrl("1", "5"), DetailUrl("1", "6") >>
LiveSpec == LiveInit /\ [][Next]_vars /\ WF_vars(WaitPoll)

\* the grab flow with a browser that redirects at any step of a capture, and
\* a run that may be interrupted
RaceNext == Next \/ Redirect \/ Cancel
RaceSpec == LiveInit /\ [][RaceNext]_vars

(***************************************************************************)
(* Properties                                                              *)
(***************************************************************************)
Attempts == { attempts[i] : i \in DOMAIN attempts }
Returns == { returns[i] : i \in DOMAIN returns }

\* the calls of capture_url made by the batch whose return is r
ChildrenOf(r) ==
    { i \in DOMAIN attempts : /\ attempts[i].run = r.run
                              /\ attempts[i].phase = r.phase
                              /\ attempts[i].parent = r.parent }

Host(url) == urlparse(url).netloc
StrippedPath(url) == RStrip(urlparse(url).path, {"/"})

\* C1: a call of capture_url whose page, after navigation and the redirect
\* wait, is on another host than the URL asked for returns None and has
\* written no file and created no directory; no call is at the saving steps
\* with a page of another host.
C1_OtherHostDiscarded ==
    /\ \A a \in Attempts :
          (a.final # <<>> /\ Host(a.final) # Host(a.url))
             => (a.kind = "None" /\ a.wrote = {} /\ a.made = {})
    /\ cap.pc \in {"save_html", "save_screenshot"} => Host(cap.page) = Host(cap.url)

C1_Witness ==
    \E a \in Attempts : a.final = SsoUrl /\ Host(a.url) = <<"h">> /\ a.kind = "None"

\* C2 as stated: a call that creates its directory, writes a file or returns a
\* CaptureResult has a final page on the host asked for whose path, without
\* trailing '/', starts with the path asked for.
C2_PersistedOnlyIfPathPrefix ==
    \A a \in Attempts :
        (a.kind = "CaptureResult" \/ a.wrote # {} \/ a.made # {})
           => /\ Host(a.final) = Host(a.url)
              /\ StartsWith(StrippedPath(a.final), StrippedPath(a.url))

\* C3: when a batch function returns, every one of its n child URLs has been
\* attempted, in order, whatever the outcome of the others, and the returned
\* list holds exactly the captures that ended with a CaptureResult.
C3_BatchContainsFailures ==
    \A r \in Returns :
        LET ch == ChildrenOf(r)
            ok == { i \in ch : attempts[i].kind = "CaptureResult" }
        IN  /\ \A k \in 1..Len(r.urls) :
                  \E i \in ch : attempts[i].index = k /\ attempts[i].url = r.urls[k]
            /\ Cardinality(ch) = Len(r.urls)
            /\ Len(r.results) = Cardinality(ok)
            /\ \A j \in 1..Len(r.results) :
                  \E i \in ok : /\ attempts[i].html_path = r.results[j].html_file
                                /\ Cardinality({ m \in ok : m <= i }) = j

C3_Witness ==
    \E r \in Returns :
        /\ Len(r.urls) >= 2
        /\ Len(r.results) = Len(r.urls) - 1
        /\ \E i \in ChildrenOf(r) :
              /\ attempts[i].index < Len(r.urls)
              /\ attempts[i].kind \in Exceptions \cup {"None"}

\* C4 as stated: every detail capture is a child of a listing file whose
\* capture ended with a CaptureResult.
C4_ChildrenOnlyFromCompleteCaptures ==
    \A d \in Attempts :
        d.phase = "details"
           => \E l \in Attempts : /\ l.phase = "listings"
                                  /\ l.run = d.run
                                  /\ l.html_path = d.parent
                                  /\ l.kind = "CaptureResult"

PassesValidation(u, f) ==
    /\ Host(f) = Host(u)
    /\ (StrippedPath(u) = <<>> \/ StrippedPath(f) = <<>>
          \/ StartsWith(StrippedPath(f), StrippedPath(u)))
    /\ (Contains(StrippedPath(u), <<"/", "assignments">>)
          => Contains(StrippedPath(f), <<"/", "assignments">>))

CanonicalDetails ==
    { a \in Attempts : /\ a.phase = "details"
                       /\ a.made # {}
                       /\ AssignmentIdAtEnd(a.url) # <<>>
                       /\ AssignmentMatches(a.url) # {} }

CourseOf(url) == (CHOOSE m \in AssignmentMatches(url) : TRUE)[1]
AssignmentOf(url) == (CHOOSE m \in AssignmentMatches(url) : TRUE)[2]

\* C7 as stated: below the root folder the directory chain of a detail
\* snapshot is <course id>, assignments, assignment_<assignment id>.
C7_ShapeAsStated ==
    \A a \in CanonicalDetails :
        /\ Len(a.html_path.dir) = 4
        /\ a.html_path.dir[1] = url_to_folder_name(config.target_urls[1])
        /\ a.html_path.dir[2] = CourseOf(a.url)
        /\ a.html_path.dir[3] = <<"assignments">>
        /\ a.html_path.dir[4] = <<"assignment_">> \o AssignmentOf(a.url)

\* C7, amended: the detail snapshot of the URL .../courses/123/assignments/456
\* is stored at <root>/<host>_.../course_123/456/<timestamp>.html: below the
\* root folder the directory chain is course_123, then 456, and the
\* screenshot has the name of the HTML file with the extension png.
C7_ShapeInCode ==
    \A a \in CanonicalDetails :
        /\ Len(a.html_path.dir) = 3
        /\ a.html_path.dir[1] = url_to_folder_name(config.target_urls[1])
        /\ a.html_path.dir[2] = <<"course_">> \o CourseOf(a.url)
        /\ a.html_path.dir[3] = AssignmentOf(a.url)
        /\ a.html_path.ext = "html"
        /\ a.screenshot_path = [a.html_path EXCEPT !.ext = "png"]

C7_Witness ==
    \E a \in CanonicalDetails :
        /\ a.kind = "CaptureResult"
        /\ a.html_path.dir[2] = <<"course_", "1">>
        /\ a.html_path.dir[3] = <<"5">>

\* C8 as stated: two detail captures of the same assignment of the same
\* course are stored in the same directory.
C8_OneDirectoryPerPage ==
    \A a, b \in Attempts :
        (/\ a.phase = "details" /\ b.phase = "details"
         /\ a.made # {} /\ b.made # {}
         /\ AssignmentMatches(a.url) = AssignmentMatches(b.url))
           => a.html_path.dir = b.html_path.dir

\* C9 as stated: no file is opened for writing by two different calls of
\* capture_url.
C9_NoFileWrittenTwice ==
    \A i, j \in DOMAIN writeLog :
        (i < j /\ writeLog[i].att # writeLog[j].att)
           => writeLog[i].path # writeLog[j].path

\* the traversal node a call is about: the course of a listing, the course
\* and assignment of a detail page
Node(a) ==
    IF a.phase = "details" THEN <<"detail", AssignmentMatches(a.url)>>
    ELSE <<a.phase, CourseMatch(urlparse(a.url).path, <<>>).id>>

\* C10 as stated: in one invocation no traversal node is snapshotted by two
\* calls of capture_url.
C10_AtMostOneSnapshotPerNode ==
    \A i, j \in DOMAIN attempts :
        (/\ i < j
         /\ attempts[i].run = attempts[j].run
         /\ attempts[i].kind = "CaptureResult"
         /\ attempts[j].kind = "CaptureResult")
           => Node(attempts[i]) # Node(attempts[j])

(***************************************************************************)
(* The click flow: which tab is the page a click has opened                *)
(***************************************************************************)
\* the variables of the capture pipeline
grabVars == <<config, anchors1, run, pc, now, faults, quick, files, dirs, cap, batch,
              attempts, writeLog, returns, summary>>

\* pg.url.startswith('chrome://') or 'about:' or 'devtools://'
SpecialSchemes == {"chrome://", "about:", "devtools://"}
IsSpecial(url) == url # <<>> /\ url[1] \in SpecialSchemes

\* position of the first occurrence of sep in s, 0 when there is none
Find(s, sep) ==
    IF Contains(s, sep)
    THEN CHOOSE i \in 1..Len(s) :
            /\ i + Len(sep) - 1 <= Len(s)
            /\ SubSeq(s, i, i + Len(sep) - 1) = sep
            /\ \A j \in 1..(i - 1) : SubSeq(s, j, j + Len(sep) - 1) # sep
    ELSE 0

\* s.split(sep)[1] for a text s that contains sep
SecondPart(s, sep) ==
    LET rest == SubSeq(s, Find(s, sep) + Len(sep), Len(s))
    IN  IF Contains(rest, sep) THEN SubSeq(rest, 1, Find(rest, sep) - 1) ELSE rest

\* the last / first tab of all_pages for which P holds, 0 (None) when there is none
LastTab(tabs, P(_)) ==
    IF \E i \in 1..Len(tabs) : P(tabs[i])
    THEN CHOOSE i \in 1..Len(tabs) : P(tabs[i]) /\ \A j \in (i + 1)..Len(tabs) : ~P(tabs[j])
    ELSE 0
FirstTab(tabs, P(_)) ==
    IF \E i \in 1..Len(tabs) : P(tabs[i])
    THEN CHOOSE i \in 1..Len(tabs) : P(tabs[i]) /\ \A j \in 1..(i - 1) : ~P(tabs[j])
    ELSE 0

\* a variant that takes the last tab whatever it shows
ResolveBaseMut(tabs, original_url) == Len(tabs)
\* BaseElementLoop._get_target_page_after_click: the last tab that is no
\* internal page of the browser
ResolveBase(tabs, original_url) == LastTab(tabs, LAMBDA u : ~IsSpecial(u))

ListingEnd(url) ==
    EndsWith(url, <<"/", "assignments">>) \/ EndsWith(url, <<"/", "quizzes">>)

\* the first loop of Assignment._get_target_page_after_click accepts the tab
AssignmentPass1(pg_url) ==
    LET url == RStrip(pg_url, {"/"})
        a   == Contains(url, <<"/", "assignments", "/">>)
        q   == Contains(url, <<"/", "quizzes", "/">>)
    IN  /\ ~IsSpecial(pg_url)
        /\ IF a /\ EndsWith(url, <<"/", "assignments">>) THEN FALSE
           ELSE IF a /\ SecondPart(url, <<"/", "assignments", "/">>) # <<>> THEN TRUE
           ELSE /\ q
                /\ ~EndsWith(url, <<"/", "quizzes">>)
                /\ SecondPart(url, <<"/", "quizzes", "/">>) # <<>>

\* the second loop accepts the tab
AssignmentPass2(pg_url) ==
    LET url == RStrip(pg_url, {"/"})
    IN  /\ ~IsSpecial(pg_url)
        /\ ~ListingEnd(url)
        /\ Contains(url, <<"/", "assignments">>) \/ Contains(url, <<"/", "quizzes">>)

\* the third loop accepts the tab
AssignmentPass3(pg_url) == ~IsSpecial(pg_url) /\ ~ListingEnd(RStrip(pg_url, {"/"}))

\* a variant that scans the tabs oldest first
ResolveAssignmentMut(tabs, original_url) ==
    IF tabs = <<>> THEN 0
    ELSE IF FirstTab(tabs, AssignmentPass1) # 0 THEN FirstTab(tabs, AssignmentPass1)
    ELSE IF FirstTab(tabs, AssignmentPass2) # 0 THEN FirstTab(tabs, AssignmentPass2)
    ELSE FirstTab(tabs, AssignmentPass3)
\* Assignment._get_target_page_after_click
ResolveAssignment(tabs, original_url) ==
    IF tabs = <<>> THEN 0
    ELSE IF LastTab(tabs, AssignmentPass1) # 0 THEN LastTab(tabs, AssignmentPass1)
    ELSE IF LastTab(tabs, AssignmentPass2) # 0 THEN LastTab(tabs, AssignmentPass2)
    ELSE LastTab(tabs, AssignmentPass3)

\* the tabs the loops of CoursesEntrance._get_target_page_after_click skip
SubPage(pg_url) ==
    Contains(pg_url, <<"/", "assignments">>) \/ Contains(pg_url, <<"/", "quizzes">>)
IsOriginal(pg_url, original_url) == original_url # <<>> /\ Contains(pg_url, original_url)

\* CoursesEntrance._get_target_page_after_click
ResolveCourses(tabs, original_url) ==
    LET pass1(u) == /\ ~IsSpecial(u) /\ ~IsOriginal(u, original_url) /\ ~SubPage(u)
                    /\ Contains(u, <<"/", "courses", "/">>)
        pass2(u) == ~IsSpecial(u) /\ ~IsOriginal(u, original_url) /\ ~SubPage(u)
        pass3(u) == ~IsSpecial(u) /\ ~SubPage(u)
    IN  IF tabs = <<>> THEN 0
        ELSE IF FirstTab(tabs, pass1) # 0 THEN FirstTab(tabs, pass1)
        ELSE IF FirstTab(tabs, pass2) # 0 THEN FirstTab(tabs, pass2)
        ELSE LastTab(tabs, pass3)

\* the URLs the tabs of the browser may show
CourseUrl == Origin \o CourseHref("1")
ListingUrl == CourseUrl \o <<"/", "assignments">>
QuizzesUrl == CourseUrl \o <<"/", "quizzes">>
TabUrls ==
    { <<"chrome://", "n">>, <<"about:", "b">>, <<"devtools://", "d">>,
      RootUrl, CourseUrl, ListingUrl, ListingUrl \o <<"/">>,
      ListingUrl \o <<"/", "9", "9">>, QuizzesUrl, QuizzesUrl \o <<"/", "7">>,
      ListingUrl \o <<"/", "5", "/", "quizzes">>,
      ListingUrl \o <<"/", "5", "/", "assignments">> }

\* the number of tabs of the browser
MaxTabs == 2

TabLists == UNION { [1..n -> TabUrls] : n \in 0..MaxTabs }

\* the page the click came from, as the callers pass it (None when not passed)
Originals == { <<>>, RootUrl, ListingUrl }

Resolvers == {"BaseElementLoop", "CoursesEntrance", "Assignment"}

\* one call of a resolver
GetTargetPageAfterClick ==
    /\ call = NoCall
    /\ \E tabs \in TabLists, original_url \in Originals :
          \/ call' = [op |-> "BaseElementLoop",
                      arg |-> [tabs |-> tabs, original_url |-> original_url],
                      out |-> ResolveBase(tabs, original_url)]
          \/ call' = [op |-> "CoursesEntrance",
                      arg |-> [tabs |-> tabs, original_url |-> original_url],
                      out |-> ResolveCourses(tabs, original_url)]
          \/ call' = [op |-> "Assignment",
                      arg |-> [tabs |-> tabs, original_url |-> original_url],
                      out |-> ResolveAssignment(tabs, original_url)]
    /\ UNCHANGED <<grabVars, click, mon>>

\* C11 as stated: the tab that the resolver of Assignment returns has a URL
\* that, without trailing '/', ends neither in /assignments nor in /quizzes.
C11_NeverAListingTab ==
    (call.op = "Assignment" /\ call.out # 0)
       => LET url == RStrip(call.arg.tabs[call.out], {"/"})
          IN  /\ ~EndsWith(url, <<"/", "assignments">>)
              /\ ~EndsWith(url, <<"/", "quizzes">>)

\* a tab that is not the result of the click: an internal page of the
\* browser, the page the click came from, and for the resolver of Assignment
\* a listing, for the resolver of CoursesEntrance a page below a course
NonQualifying(op, url, original_url) ==
    \/ IsSpecial(url)
    \/ url = original_url
    \/ op = "Assignment"
         /\ LET u == RStrip(url, {"/"})
            IN  EndsWith(u, <<"/", "assignments">>) \/ EndsWith(u, <<"/", "quizzes">>)
    \/ op = "CoursesEntrance"
         /\ (Contains(url, <<"/", "assignments">>) \/ Contains(url, <<"/", "quizzes">>))

\* C12 as stated: a resolver called with no tab, or with tabs none of which
\* qualifies, returns None.
C12_NotFoundWithoutQualifyingTab ==
    (/\ call.op \in Resolvers
     /\ \A i \in 1..Len(call.arg.tabs) :
           NonQualifying(call.op, call.arg.tabs[i], call.arg.original_url))
       => call.out = 0

\* a content tab whose URL has /assignments/ or /quizzes/ followed by a
\* non-empty segment
StrictDetail(url) ==
    /\ ~IsSpecial(url)
    /\ \E sep \in { <<"/", "assignments", "/">>, <<"/", "quizzes", "/">> } :
          Contains(url, sep) /\ SecondPart(url, sep) # <<>>

\* a strict detail URL that is outside the listing exclusion of the first
\* loop: with /assignments/ in it, it does not end in /assignments; with only
\* /quizzes/ in it, it does not end in /quizzes
StrictAndNotExcluded(url) ==
    /\ StrictDetail(url)
    /\ IF Contains(url, <<"/", "assignments", "/">>)
       THEN ~EndsWith(RStrip(url, {"/"}), <<"/", "assignments">>)
       ELSE ~EndsWith(RStrip(url, {"/"}), <<"/", "quizzes">>)

\* the tabs of the call for which P holds
TabsWith(P(_)) == { i \in 1..Len(call.arg.tabs) : P(call.arg.tabs[i]) }

\* C29 as stated: when some content tab has a strict detail URL, the
\* resolver of Assignment returns the last such tab.
C29_LastStrictDetail ==
    (call.op = "Assignment" /\ TabsWith(StrictDetail) # {})
       => /\ call.out \in TabsWith(StrictDetail)
          /\ \A i \in TabsWith(StrictDetail) : i <= call.out

\* C29 as the code has it: the resolver returns the last tab with a strict
\* detail URL outside the listing exclusion, when there is one.
C29_LastStrictDetailNotExcluded ==
    (call.op = "Assignment" /\ TabsWith(StrictAndNotExcluded) # {})
       => /\ call.out \in TabsWith(StrictAndNotExcluded)
          /\ \A i \in TabsWith(StrictAndNotExcluded) : i <= call.out

\* two tabs have a strict detail URL, and the resolver has answered; the
\* older one would also match
C29_Witness ==
    /\ call.op = "Assignment"
    /\ Cardinality(TabsWith(StrictAndNotExcluded)) = 2
    /\ call.arg.tabs[1] # call.arg.tabs[2]
    /\ call.out = 2

\* C31: the tab a resolver returns is no internal page of the browser, its
\* URL starts with none of chrome://, about:, devtools://.
C31_NeverASpecialTab ==
    (call.op \in Resolvers /\ call.out # 0)
       => /\ call.out \in 1..Len(call.arg.tabs)
          /\ ~IsSpecial(call.arg.tabs[call.out])

\* a resolver has returned a tab although a later tab is an internal page
C31_Witness ==
    /\ call.op \in Resolvers
    /\ call.out # 0
    /\ \E i \in (call.out + 1)..Len(call.arg.tabs) : IsSpecial(call.arg.tabs[i])

\* C30: the tab a resolver returns does not show original_url.
C30_NeverTheOriginalPage ==
    (call.op \in {"Assignment", "CoursesEntrance"} /\ call.out # 0)
       => call.arg.tabs[call.out] # call.arg.original_url

(***************************************************************************)
(* The naming functions called on their own                                *)
(***************************************************************************)
\* longest path, in segments, of the URLs the naming functions are called with
MaxSegments == 4
\* length of the long path segment, one more than url_to_subfolder_name keeps
LongLen == 51

Long == [i \in 1..LongLen |-> "7"]

\* the path segments of the URLs: those of a detail page, an over-long id,
\* and segments with characters the functions replace or strip
Segments == {<<"courses">>, <<"assignments">>, <<"4", "5", "6">>, Long,
             <<"*">>, <<"a", "\f", "|", " ">>, <<".", ".">>}

Hosts == {<<>>, <<"h">>, <<"www.", "h">>, <<"www.">>}

SegmentLists == UNION {[1..n -> Segments] : n \in 0..MaxSegments}

RECURSIVE PathOf(_)
PathOf(segs) == IF segs = <<>> THEN <<>> ELSE <<"/">> \o Head(segs) \o PathOf(Tail(segs))

NamingFunctions == {"url_to_folder_name", "url_to_subfolder_name"}

\* one call of url_to_folder_name or url_to_subfolder_name
UrlToName ==
    /\ call = NoCall
    /\ \E host \in Hosts, segs \in SegmentLists, f \in NamingFunctions :
          LET url == <<"https://">> \o host \o PathOf(segs)
          IN  call' = [op  |-> f,
                       arg |-> url,
                       out |-> IF f = "url_to_folder_name"
                               THEN url_to_folder_name(url)
                               ELSE url_to_subfolder_name(url)]
    /\ UNCHANGED <<grabVars, click, mon>>

PartsOf(url) == PathParts(urlparse(url).path)

\* C13 as the specification states it: a path ending in /assignments/<digits>
\* gives assignment_<digits>, one ending in /courses/<id>/assignments gives
\* assignments, one ending in /courses/<id> gives <id>
C13_NameAsStated ==
    call.op = "url_to_subfolder_name" =>
        LET parts == PartsOf(call.arg)
            n     == Len(parts)
        IN  /\ (n >= 2 /\ IsDigits(parts[n]) /\ parts[n - 1] = <<"assignments">>)
                  => Explode(call.out) = Explode(<<"assignment_">>) \o parts[n]
            /\ (n >= 3 /\ parts[n] = <<"assignments">> /\ IsDigits(parts[n - 1])
                       /\ parts[n - 2] = <<"courses">>)
                  => call.out = <<"assignments">>
            /\ (n >= 2 /\ IsDigits(parts[n]) /\ parts[n - 1] = <<"courses">>)
                  => call.out = parts[n]

\* C13 as the code has it: the prefix assignment_ is given only when the path
\* has at least three segments, and the names hold when they fit in
\* MaxSubfolderLen characters: then /assignments/<digits> gives
\* assignment_<digits>, /courses/<id>/assignments gives assignments and
\* /courses/<id> gives <id>
C13_NameInCode ==
    call.op = "url_to_subfolder_name" =>
        LET parts == PartsOf(call.arg)
            n     == Len(parts)
        IN  /\ (n >= 3 /\ IsDigits(parts[n]) /\ parts[n - 1] = <<"assignments">>
                       /\ Chars(<<"assignment_">>) + Len(parts[n]) <= MaxSubfolderLen)
                  => Explode(call.out) = Explode(<<"assignment_">>) \o parts[n]
            /\ (n >= 3 /\ parts[n] = <<"assignments">> /\ IsDigits(parts[n - 1])
                       /\ parts[n - 2] = <<"courses">>)
                  => call.out = <<"assignments">>
            /\ (n >= 2 /\ IsDigits(parts[n]) /\ parts[n - 1] = <<"courses">>
                       /\ Len(parts[n]) <= MaxSubfolderLen)
                  => call.out = parts[n]

C13_Witness ==
    /\ call.op = "url_to_subfolder_name"
    /\ call.arg = <<"https://", "h", "/", "courses", "/", "4", "5", "6", "/",
                    "assignments", "/", "4", "5", "6">>
    /\ call.out = <<"assignment_", "4", "5", "6">>

Last(s) == s[Len(s)]

C15_NeverEmpty ==
    call.op \in NamingFunctions => call.out # <<>>

\* C16: the names never end with a dot or a space
C16_NoTrailingDotOrSpace ==
    (call.op \in NamingFunctions /\ call.out # <<>>)
        => Last(Explode(call.out)) \notin {".", " "}

(***************************************************************************)
(* The paths of a capture: PageSaver.generate_file_paths and               *)
(* BaseElementLoop.save_page_content called on their own                   *)
(***************************************************************************)
\* BaseElementLoop.save_page_content: the two paths it writes
save_page_content(url, timestamp, parent_html_file) ==
    LET url_dir == IF parent_html_file # NoPath
                   THEN Append(parent_html_file.dir, url_to_subfolder_name(url))
                   ELSE <<url_to_folder_name(url)>>
    IN  [html |-> [dir |-> url_dir, ts |-> strftime(timestamp), ext |-> "html"],
         png  |-> [dir |-> url_dir, ts |-> strftime(timestamp), ext |-> "png"]]

\* latest clock value of a call
MaxStamp == 3

SaveUrls ==
    {<<"https://", "h">> \o PathOf(segs) :
        segs \in UNION {[1..n -> Segments] : n \in 1..2}}
    \cup {ListingUrl, DetailUrl("1", "5")}

Parents == {NoPath,
            [dir |-> << <<"h">> >>, ts |-> 0, ext |-> "html"],
            [dir |-> << <<"h">>, <<"course_", "1">> >>, ts |-> 0, ext |-> "html"]}

CourseNames == {<<>>, <<"M", "a", "t", "h">>, <<".", ".">>}

SaveFunctions == {"generate_file_paths", "save_page_content"}

\* one call of generate_file_paths or of save_page_content
SavePaths ==
    /\ call = NoCall
    /\ \E f \in SaveFunctions, url \in SaveUrls, timestamp \in 0..MaxStamp,
          parent_html_file \in Parents, course_name \in CourseNames :
          /\ f = "save_page_content" => course_name = <<>>
          /\ call' = [op  |-> f,
                      arg |-> [url |-> url, timestamp |-> timestamp,
                               parent_html_file |-> parent_html_file,
                               course_name |-> course_name],
                      out |-> IF f = "generate_file_paths"
                              THEN generate_file_paths(url, timestamp,
                                                       parent_html_file, course_name)
                              ELSE save_page_content(url, timestamp, parent_html_file)]
    /\ UNCHANGED <<grabVars, click, mon>>

\* the directory a path names on the file system: an empty name and '.' name
\* the directory itself, '..' names the directory above
RECURSIVE Norm(_, _)
Norm(dir, acc) ==
    IF dir = <<>> THEN acc
    ELSE LET name == Head(dir)
         IN  IF name = <<>> \/ name = <<".">> THEN Norm(Tail(dir), acc)
             ELSE IF name = <<".", ".">> /\ acc # <<>> /\ Last(acc) # <<".", ".">>
                  THEN Norm(Tail(dir), SubSeq(acc, 1, Len(acc) - 1))
                  ELSE Norm(Tail(dir), Append(acc, name))

ProperDescendant(d, p) ==
    LET nd == Norm(d, <<>>)
        np == Norm(p, <<>>)
    IN  Len(nd) > Len(np) /\ SubSeq(nd, 1, Len(np)) = np

\* C17: with a parent file, the directory of the capture is a proper
\* descendant of the directory of the parent file
C17_StrictSubdirectory ==
    (call.op \in SaveFunctions /\ call.arg.parent_html_file # NoPath)
        => ProperDescendant(call.out.html.dir, call.arg.parent_html_file.dir)

\* C18: the two paths of a snapshot have the same directory and the same
\* stem, and the extensions html and png
C18_SameDirectoryAndStem ==
    call.op \in SaveFunctions =>
        /\ call.out.html.dir = call.out.png.dir
        /\ call.out.html.ts = call.out.png.ts
        /\ call.out.html.ext = "html"
        /\ call.out.png.ext = "png"

\* a capture below a parent, taken in the second half of a second
C18_Witness ==
    /\ call.op = "generate_file_paths"
    /\ call.arg.parent_html_file # NoPath
    /\ call.arg.timestamp = 1
    /\ call.out.html.dir = << <<"h">>, <<"course_", "1">> >>
    /\ call.out.png = [dir |-> << <<"h">>, <<"course_", "1">> >>, ts |-> 0, ext |-> "png"]

(***************************************************************************)
(* AssignmentExtractor.extract_assignments_by_title                        *)
(*                                                                         *)
(* A listing page is its toggle buttons (button.element_toggler: text and  *)
(* aria-controls), its div elements (id and the anchors inside) and the    *)
(* href of its base tag.  The buttons are not inside a div of class        *)
(* assignment_group, so the search through the ancestors finds nothing.    *)
(***************************************************************************)
LowerTable == << <<"Past", "past">>, <<"Undated", "undated">>,
                 <<"Assignments", "assignments">> >>

\* str.lower()
Lower(s) ==
    [i \in 1..Len(s) |->
        IF \E k \in 1..Len(LowerTable) : LowerTable[k][1] = s[i]
        THEN LowerTable[CHOOSE k \in 1..Len(LowerTable) : LowerTable[k][1] = s[i]][2]
        ELSE s[i]]

DefaultBase == <<"https://", "sit.instructure.com">>

\* the full URL of the href of an anchor
FullUrl(href, base) ==
    IF href[1] \in Schemes THEN href
    ELSE IF href[1] = "/"
         THEN (IF base # <<>> THEN RStrip(base, {"/"}) ELSE DefaultBase) \o href
         ELSE DefaultBase \o <<"/">> \o LStrip(href, {"/"})

\* a variant that takes the first div of the page
SectionContainerMut(page, aria_controls) == 1

\* the first div of the page that the button controls, 0 when there is none
SectionContainer(page, aria_controls) ==
    LET byId == {i \in 1..Len(page.divs) : page.divs[i].id = aria_controls}
        byList == {i \in 1..Len(page.divs) :
                      /\ page.divs[i].class = "assignment-list"
                      /\ Contains(page.divs[i].id, aria_controls)}
        Min(S) == CHOOSE i \in S : \A j \in S : i <= j
    IN  IF byId # {} THEN Min(byId)
        ELSE IF byList # {} THEN Min(byList)
        ELSE 0

RECURSIVE AssignmentLinks(_, _, _)
AssignmentLinks(links, base, aria_controls) ==
    IF links = <<>> THEN <<>>
    ELSE LET link == Head(links)
             rest == AssignmentLinks(Tail(links), base, aria_controls)
         IN  IF link.class = "ig-title" /\ link.href # <<>>
             THEN <<[url |-> FullUrl(link.href, base),
                     assignment_name |-> link.text,
                     section_aria_controls |-> aria_controls]>> \o rest
             ELSE rest

extract_assignments_by_title(page, section_title) ==
    LET hits == {i \in 1..Len(page.buttons) :
                    Contains(Lower(page.buttons[i].text), Lower(section_title))}
    IN  IF hits = {} THEN <<>>
        ELSE LET section_button == page.buttons[CHOOSE i \in hits : \A j \in hits : i <= j]
                 aria_controls  == section_button.aria_controls
                 c == SectionContainer(page, aria_controls)
             IN  IF aria_controls = <<>> \/ c = 0 THEN <<>>
                 ELSE AssignmentLinks(page.divs[c].links, page.base, aria_controls)

\* most anchors of one section
MaxLinks == 2

SectionLabels == {<<"Past", " ", "Assignments">>, <<"Undated", " ", "Assignments">>,
                  <<"Assignments">>}

SectionTitles == SectionLabels \cup {<<"past", " ", "assignments">>, <<"Quizzes">>}

Anchor(href, text, class) == [href |-> href, text |-> text, class |-> class]

FirstPool == {Anchor(<<"/", "courses", "/", "1", "/", "assignments", "/", "5">>, <<"A">>, "ig-title"),
              Anchor(DetailUrl("1", "6"), <<"B">>, "ig-title"),
              Anchor(<<>>, <<"C">>, "ig-title"),
              Anchor(<<"/", "courses", "/", "1", "/", "assignments", "/", "9">>, <<"D">>, "other")}

SecondPool == {Anchor(<<"/", "courses", "/", "1", "/", "assignments", "/", "7">>, <<"E">>, "ig-title"),
               Anchor(<<"courses", "/", "1", "/", "assignments", "/", "8">>, <<"F">>, "ig-title")}

LinkLists(pool) == UNION {[1..n -> pool] : n \in 0..MaxLinks}

\* aria-controls of the second button: its container, none, the id of no
\* div, a part of the ids of the divs
SecondControls == {<<"g", "2">>, <<>>, <<"g", "3">>, <<"g">>}

\* the listing pages with two sections
ListingPages ==
    {[buttons |-> <<[text |-> l1, aria_controls |-> <<"g", "1">>],
                    [text |-> l2, aria_controls |-> a2]>>,
      divs    |-> <<[id |-> <<"g", "1">>, class |-> "assignment-list", links |-> k1],
                    [id |-> <<"g", "2">>, class |-> "assignment-list", links |-> k2]>>,
      base    |-> b] :
        l1 \in SectionLabels, l2 \in SectionLabels,
        k1 \in LinkLists(FirstPool), k2 \in LinkLists(SecondPool),
        b \in {<<>>, RootUrl}, a2 \in SecondControls}

\* one call of extract_assignments_by_title on a stored listing page
ExtractAssignmentsByTitle ==
    /\ call = NoCall
    /\ \E page \in ListingPages, section_title \in SectionTitles :
          /\ page.buttons[1].text # page.buttons[2].text
          /\ call' = [op  |-> "extract_assignments_by_title",
                      arg |-> [page |-> page, section_title |-> section_title],
                      out |-> extract_assignments_by_title(page, section_title)]
    /\ UNCHANGED <<grabVars, click, mon>>

TitleAnchors(div) == {i \in 1..Len(div.links) : div.links[i].class = "ig-title"}

\* C19: called with the label of one of the two sections, the function
\* returns the links of the container of that section: as many as the
\* container has title anchors, and none of the other section
C19_OnlyThatSection ==
    call.op = "extract_assignments_by_title" =>
        \A k \in 1..2 :
            call.arg.page.buttons[k].text = call.arg.section_title =>
                /\ Len(call.out) = Cardinality(TitleAnchors(call.arg.page.divs[k]))
                /\ \A i \in 1..Len(call.out) :
                      call.out[i].section_aria_controls
                          = call.arg.page.buttons[k].aria_controls

(***************************************************************************)
(* CourseURLExtractor.extract_course_urls called on its own                *)
(***************************************************************************)
HrefPool == {<<"/", "courses", "/", "1">>,
             <<"/", "courses", "/", "2", "/", "assignments">>,
             <<"https://", "h", "/", "courses", "/", "1">>,
             <<"/", "x", "/", "courses", "/", "3">>,
             <<"/", "dash">>,
             <<"/", "courses", "/">>}

Scripts == {<<>>,
            <<"q", "/", "courses", "/", "2", "q">>,
            <<"/", "courses", "/", "1", "0", "q", "/", "courses", "/", "2">>,
            <<"/", "courses", "/", "1", "/", "courses", "/", "1">>}

\* one call of extract_course_urls on a stored dashboard page
ExtractCourseUrls ==
    /\ call = NoCall
    /\ \E anchors \in LinkLists(HrefPool), script \in Scripts :
          LET markup == [kind |-> "dashboard", group |-> FALSE, anchors |-> anchors,
                         origin |-> Origin, script |-> script]
          IN  call' = [op  |-> "extract_course_urls",
                       arg |-> markup,
                       out |-> extract_course_urls(markup)]
    /\ UNCHANGED <<grabVars, click, mon>>

\* the ids that follow /courses/ somewhere in a text
CourseIdsAt(s) ==
    { SubSeq(s, i + 3, i + 2 + DigitRun(s, i + 3)) :
        i \in { j \in 1..Len(s) : /\ j + 2 <= Len(s)
                                  /\ SubSeq(s, j, j + 2) = <<"/", "courses", "/">>
                                  /\ DigitRun(s, j + 3) > 0 } }

\* C20: extract_course_urls returns /courses/<id> for every id found in an
\* anchor or in the text of the page and for no other, each once, in
\* ascending order
C20_UnionOnceSorted ==
    call.op = "extract_course_urls" =>
        LET ids == UNION { CourseIdsAt(call.arg.anchors[i]) :
                             i \in 1..Len(call.arg.anchors) }
                   \cup CourseIdsAt(call.arg.script)
        IN  /\ Range(call.out) = { <<"/", "courses", "/">> \o id : id \in ids }
            /\ \A i \in 1..Len(call.out) : \A j \in (i + 1)..Len(call.out) :
                  StrLess(call.out[i], call.out[j])

\* a course of an anchor and two courses of the script, merged and ordered
C20_Witness ==
    /\ call.op = "extract_course_urls"
    /\ <<"/", "courses", "/", "1">> \in Range(call.arg.anchors)
    /\ CourseIdsAt(call.arg.script) = {<<"1", "0">>, <<"2">>}
    /\ call.out = << <<"/", "courses", "/", "1">>, <<"/", "courses", "/", "1", "0">>,
                     <<"/", "courses", "/", "2">> >>

\* the buttons whose text holds the title, upper and lower case alike
ButtonsFor(page, section_title) ==
    {i \in 1..Len(page.buttons) :
        Contains(Lower(page.buttons[i].text), Lower(section_title))}

\* the section of the title cannot be located: no button, or the first
\* button has no aria-controls, or no div has or holds that id
NotLocated(page, section_title) ==
    LET hits == ButtonsFor(page, section_title)
    IN  \/ hits = {}
        \/ LET b == page.buttons[CHOOSE i \in hits : \A j \in hits : i <= j]
           IN  \/ b.aria_controls = <<>>
               \/ \A d \in 1..Len(page.divs) :
                     /\ page.divs[d].id # b.aria_controls
                     /\ ~Contains(page.divs[d].id, b.aria_controls)

ListingsBefore(k) ==
    { i \in 1..(k - 1) : attempts[i].phase = "listings" /\ attempts[i].run = attempts[k].run }

Siblings(i, j) ==
    /\ i < j
    /\ attempts[i].run = attempts[j].run
    /\ attempts[i].phase = attempts[j].phase
    /\ attempts[i].parent = attempts[j].parent

\* the place of the first link to u in the markup
Pos(links, u) == CHOOSE k \in 1..Len(links) : links[k] = u /\ \A m \in 1..(k - 1) : links[m] # u

\* C23 as stated: the detail pages of one listing are captured in the source
\* order of their links in the markup of the listing.
C23_SourceOrder ==
    \A i, j \in DOMAIN attempts :
        LET links == ReadFile(files, attempts[i].parent).anchors
        IN  (/\ Siblings(i, j)
             /\ attempts[i].phase = "details"
             /\ attempts[i].url \in Range(links)
             /\ attempts[j].url \in Range(links))
               => Pos(links, attempts[i].url) < Pos(links, attempts[j].url)

\* C23 as the code has it: the course listings and the detail pages of one
\* listing are both captured in the sorted order of their deduplicated URLs.
C23_SortedOrder ==
    \A i, j \in DOMAIN attempts :
        (Siblings(i, j) /\ attempts[i].phase \in {"listings", "details"})
           => StrLess(attempts[i].url, attempts[j].url)

\* two detail pages of one listing have been captured, their links are in the
\* markup in the other order
C23_Witness ==
    \E i, j \in DOMAIN attempts :
        LET links == ReadFile(files, attempts[i].parent).anchors
        IN  /\ Siblings(i, j)
            /\ attempts[i].phase = "details"
            /\ attempts[i].url \in Range(links)
            /\ attempts[j].url \in Range(links)
            /\ Pos(links, attempts[j].url) < Pos(links, attempts[i].url)

\* C24: a capture that has a parent file comes after a capture of the same
\* run that ended with a CaptureResult and wrote that file.
C24_AfterSuccessfulParent ==
    \A k \in DOMAIN attempts :
        attempts[k].parent # NoPath
           => \E i \in 1..(k - 1) : /\ attempts[i].run = attempts[k].run
                                    /\ attempts[i].html_path = attempts[k].parent
                                    /\ attempts[i].kind = "CaptureResult"

\* C27: a run that has ended has printed the final summary.
C27_EndsWithSummary == pc = "done" => summary.printed

\* C28: a run ends before its last step only when the dashboard capture could
\* not reach the browser.
C28_EarlyEndOnlyWithoutBrowser ==
    (pc = "done" /\ ~summary.printed)
       => /\ attempts # <<>>
          /\ attempts[Len(attempts)].phase = "dashboard"
          /\ attempts[Len(attempts)].kind = "BrowserNotRunningError"

(***************************************************************************)
(* The redirect wait                                                       *)
(***************************************************************************)
\* C26: the wait of _wait_for_target_page ends: while it polls the elapsed
\* time has not passed the ceiling, and a wait that has begun leads to the
\* return of the page.
C26_WaitTerminates ==
    /\ [](cap.pc = "wait" => cap.elapsed * 1000 <= RedirectTimeout)
    /\ (cap.pc = "wait") ~> (cap.pc = "validate")

\* the wait has returned the page because the ceiling was reached
C26_Witness == cap.pc = "validate" /\ cap.timedOut /\ cap.elapsed * 1000 >= RedirectTimeout

(***************************************************************************)
(* The click flow: CoursesEntrance over the course cards of the dashboard, *)
(* Assignment over the "Past Assignments" links of a listing.  The browser *)
(* has one tab; click.hist is its history, the last entry is the page shown *)
(***************************************************************************)
\* number of course cards of the dashboard
MaxCards == 2

\* page.go_back(): the previous entry of the history; the page stays when
\* there is none
GoBack(hist) == IF Len(hist) > 1 THEN SubSeq(hist, 1, Len(hist) - 1) ELSE hist

\* one child has completed: the page it was launched from, the navigation
\* levels it introduced, the calls of go_back issued, the page shown after
Completed(level, before, levels, backs, after) ==
    [level |-> level, from |-> before[Len(before)], levels |-> levels, backs |-> backs,
     after |-> after[Len(after)]]

\* the browser shows the dashboard, opened directly or after the login page
ClickInit ==
    /\ config \in [target_urls : { <<u>> : u \in DashboardUrls },
                   clean_output_on_start : {TRUE}]
    /\ anchors1 = <<DetailUrl("1", "5"), DetailUrl("1", "6")>>
    /\ run = 0
    /\ pc = "idle"
    /\ now = 0
    /\ faults = 0
    /\ quick = 0
    /\ files = {}
    /\ dirs = {<<>>}
    /\ cap = IdleCap
    /\ batch = NoBatch
    /\ attempts = <<>>
    /\ writeLog = <<>>
    /\ returns = <<>>
    /\ summary = NoSummary
    /\ call = NoCall
    /\ \E h \in { <<config.target_urls[1]>>, <<LoginUrl, config.target_urls[1]>> } :
          click = [NoClick EXCEPT !.pc = "courses", !.hist = h]
    /\ mon = NoMon

\* one iteration of the loop of CoursesEntrance.click_all_elements up to the
\* call of after_click_action, or the end of the loop.  success is the answer
\* of click_element_by_info, navigated whether the click changed the page,
\* gotoOk whether page.goto of the listing returned, saved whether
\* save_page_content gave both files, links the number of links extracted
\* from "Past Assignments"
CoursesEntranceClick ==
    /\ click.pc = "courses"
    /\ \/ /\ click.i < MaxCards
          /\ \E success, navigated, gotoOk, saved \in BOOLEAN, links \in 0..MaxLinks :
                LET original_url == config.target_urls[1]
                    before == click.hist
                    shown == before[Len(before)]
                    card == Origin \o CourseHref(IF click.i = 0 THEN "1" ELSE "2")
                    h1 == IF success /\ navigated THEN Append(before, card) ELSE before
                    target == IF success
                              THEN ResolveCourses(<<h1[Len(h1)]>>, original_url)
                              ELSE 0
                    assignments_url == RStrip(h1[Len(h1)], {"/"}) \o <<"/", "assignments">>
                    h2 == IF target # 0 /\ gotoOk THEN Append(h1, assignments_url) ELSE h1
                    html == target # 0 /\ gotoOk /\ saved
                IN  /\ success => shown = original_url
                    /\ navigated => success
                    /\ links > 0 => html /\ navigated
                    /\ click' = [click EXCEPT
                                    !.hist = h2, !.i = @ + 1, !.j = 0, !.links = links,
                                    !.from = before, !.levels = Len(h2) - Len(before),
                                    !.pc = IF html THEN "assignments" ELSE "after_click"]
       \/ /\ click.i >= MaxCards
          /\ click' = [click EXCEPT !.pc = "done"]
    /\ UNCHANGED <<grabVars, call, mon>>

\* one iteration of the loop of Assignment.click_all_elements with its
\* after_click_action: the element is not found (continue), the click does
\* not reach a detail page, or it does and the page is saved
AssignmentClick ==
    /\ click.pc = "assignments"
    /\ click.j < click.links
    /\ \E outcome \in {"continue", "failed", "navigated"} :
          LET before == click.hist
              shown == before[Len(before)]
              detail == shown \o <<"/", IF click.j = 0 THEN "5" ELSE "6">>
              h1 == IF outcome = "navigated" THEN Append(before, detail) ELSE before
              backs == IF outcome = "continue" THEN 0 ELSE 1
              h2 == IF backs = 1 THEN GoBack(h1) ELSE h1
          IN  /\ outcome # "continue" <=> ListingEnd(shown)
              /\ click' = [click EXCEPT
                              !.hist = h2, !.j = @ + 1,
                              !.done = Append(@, Completed("assignment", before,
                                                           Len(h1) - Len(before), backs, h2))]
    /\ UNCHANGED <<grabVars, call, mon>>

\* CoursesEntrance.after_click_action once _process_assignments has returned:
\* go_back, go_back
CoursesEntranceAfterClick ==
    /\ \/ click.pc = "after_click"
       \/ click.pc = "assignments" /\ click.j >= click.links
    /\ LET h2 == GoBack(GoBack(click.hist))
       IN  click' = [click EXCEPT
                        !.hist = h2, !.pc = "courses",
                        !.done = Append(@, Completed("course", click.from, click.levels, 2, h2))]
    /\ UNCHANGED <<grabVars, call, mon>>

ClickNext ==
    \/ CoursesEntranceClick
    \/ AssignmentClick
    \/ CoursesEntranceAfterClick

ClickSpec == ClickInit /\ [][ClickNext]_vars

\* C25: for every child that has completed, the calls of go_back issued are
\* as many as the navigation levels the child introduced, and the browser
\* shows the page the child was launched from.
C25_BacksEqualLevels ==
    \A k \in DOMAIN click.done :
        /\ click.done[k].backs = click.done[k].levels
        /\ click.done[k].after = click.done[k].from

(***************************************************************************)
(* The page and the session of a capture                                   *)
(***************************************************************************)
\* C33: when capture_url has ended, by a return, by an exception or by an
\* interruption, its page and its BrowserSession have been closed.
C33_ClosedWhenFinished ==
    cap.pc \in {"returned", "cancelled"} => cap.open = {}

(***************************************************************************)
(* The page whose markup is stored                                         *)
(***************************************************************************)
\* C32: the markup that capture_url has written was read from a page whose
\* URL at that moment passes the validation of capture_url.
C32_StoredMarkupIsValidated ==
    cap.read # <<>> => RedirectAccepted(cap.url, cap.read)

(***************************************************************************)
(* The tab of the click and the tab of go_back                             *)
(***************************************************************************)
\* ElementClicker.click_element_by_info: the first tab whose URL contains
\* page_url, else the first tab; 0 when there is no tab
ClickerTab(tabs, page_url) ==
    IF tabs = <<>> THEN 0
    ELSE IF page_url # <<>> /\ FirstTab(tabs, LAMBDA u : Contains(u, page_url)) # 0
    THEN FirstTab(tabs, LAMBDA u : Contains(u, page_url))
    ELSE 1

\* Assignment.click_all_elements: the first tab whose URL contains the URL of
\* the listing, else the first tab that is no internal page; 0 (continue)
\* when there is none
AssignmentTab(tabs, assignments_page_url) ==
    IF /\ assignments_page_url # <<>>
       /\ FirstTab(tabs, LAMBDA u : Contains(u, assignments_page_url)) # 0
    THEN FirstTab(tabs, LAMBDA u : Contains(u, assignments_page_url))
    ELSE FirstTab(tabs, LAMBDA u : ~IsSpecial(u))

\* BaseElementLoop.go_back: all_pages[0]; 0 when there is no tab
GoBackTab(tabs) == IF tabs = <<>> THEN 0 ELSE 1

\* one click of a loop followed by its go_back, on the same tabs
ClickThenGoBack ==
    /\ call = NoCall
    /\ \E tabs \in TabLists, page_url \in Originals :
          \/ call' = [op |-> "click_element_by_info",
                      arg |-> [tabs |-> tabs, page_url |-> page_url],
                      out |-> [clicked |-> ClickerTab(tabs, page_url),
                               back |-> GoBackTab(tabs)]]
          \/ call' = [op |-> "Assignment.click",
                      arg |-> [tabs |-> tabs, page_url |-> page_url],
                      out |-> [clicked |-> AssignmentTab(tabs, page_url),
                               back |-> GoBackTab(tabs)]]
    /\ UNCHANGED <<grabVars, click, mon>>

\* C34: go_back acts on the tab in which the loop has clicked.
C34_BackInTheClickedTab ==
    (call.op \in {"click_element_by_info", "Assignment.click"} /\ call.out.clicked # 0)
       => call.out.back = call.out.clicked

(***************************************************************************)
(* The directories of the detail pages of one listing                      *)
(***************************************************************************)
\* C35: two detail pages of one listing that have different assignment ids
\* are stored in different directories.
C35_OneDirectoryPerAssignment ==
    \A a, b \in Attempts :
        (/\ a.phase = "details" /\ b.phase = "details"
         /\ a.run = b.run
         /\ a.parent = b.parent
         /\ a.wrote # {} /\ b.wrote # {}
         /\ AssignmentMatches(a.url) # {} /\ AssignmentMatches(b.url) # {}
         /\ AssignmentOf(a.url) # AssignmentOf(b.url))
           => a.html_path.dir # b.html_path.dir

(***************************************************************************)
(* WebMonitor.monitor_loop and PageCapture.check_and_capture                *)
(***************************************************************************)
\* rounds of the loop, and calendar days the monitor may run through
MaxRounds == 3
MaxDays == 2

\* the URLs the tabs of the browser may show while the monitor runs
MonitorUrls == { RootUrl, Origin \o CourseHref("1"), SsoUrl, <<"chrome://", "n">> }

\* PageCapture.is_target_url: target in url or url in target
PageCaptureIsTarget(url, target_urls) ==
    \E k \in 1..Len(target_urls) :
        Contains(url, target_urls[k]) \/ Contains(target_urls[k], url)

\* a variant that remembers only the captures that succeeded
RememberMut(captured_urls, url_key, ok) ==
    IF ok THEN captured_urls \cup {url_key} ELSE captured_urls
\* self.captured_urls.add(url_key), after capture_page has returned
Remember(captured_urls, url_key, ok) == captured_urls \cup {url_key}

\* a variant that goes on to the sleep without looking at self.running
AfterCheckMut(running) == "sleep"
\* if not self.running: break
AfterCheck(running) == IF running THEN "sleep" ELSE "returned"

\* the loop of check_and_capture over all_pages from tab k on: oks[k] is
\* whether capture_page of tab k saves the page and so runs
\* on_capture_success, which sets running to False
RECURSIVE CheckPages(_, _, _, _, _)
CheckPages(tabs, oks, target_urls, k, m) ==
    IF k > Len(tabs) THEN m
    ELSE LET url == tabs[k]
             url_key == <<url, m.day>>
         IN  IF \/ url[1] \in {"chrome://", "about:"}
                \/ ~PageCaptureIsTarget(url, target_urls)
                \/ url_key \in m.captured_urls
             THEN CheckPages(tabs, oks, target_urls, k + 1, m)
             ELSE CheckPages(tabs, oks, target_urls, k + 1,
                             [m EXCEPT
                                 !.calls = Append(@, [url |-> url, day |-> m.day,
                                                      round |-> m.rounds, ok |-> oks[k]]),
                                 !.captured_urls = Remember(@, url_key, oks[k]),
                                 !.running = @ /\ ~oks[k],
                                 !.success = @ \/ oks[k]])

MonitorInit ==
    /\ config = [target_urls |-> <<RootUrl>>, clean_output_on_start |-> TRUE]
    /\ anchors1 = <<DetailUrl("1", "5"), DetailUrl("1", "6")>>
    /\ run = 0
    /\ pc = "idle"
    /\ now = 0
    /\ faults = 0
    /\ quick = 0
    /\ files = {}
    /\ dirs = {<<>>}
    /\ cap = IdleCap
    /\ batch = NoBatch
    /\ attempts = <<>>
    /\ writeLog = <<>>
    /\ returns = <<>>
    /\ summary = NoSummary
    /\ call = NoCall
    /\ click = NoClick
    /\ mon = [NoMon EXCEPT !.pc = "loop"]

\* one round of `while self.running': check_and_capture with the tabs the
\* browser shows (none when the request to the browser fails), then the test
\* of self.running
MonitorRound ==
    /\ mon.pc = "loop"
    /\ mon.running
    /\ mon.rounds < MaxRounds
    /\ \E n \in 0..MaxTabs :
          \E tabs \in [1..n -> MonitorUrls], oks \in [1..n -> BOOLEAN] :
             LET m == CheckPages(tabs, oks, config.target_urls, 1,
                                 [mon EXCEPT !.rounds = @ + 1, !.tabs = tabs])
             IN  mon' = [m EXCEPT !.pc = AfterCheck(m.running)]
    /\ UNCHANGED <<grabVars, call, click>>

\* await asyncio.sleep(check_interval) and the test of `while self.running':
\* midnight may pass, and a signal may set running to False
MonitorSleep ==
    /\ mon.pc = "sleep"
    /\ \E d \in {mon.day, mon.day + 1}, signal \in BOOLEAN :
          /\ d <= MaxDays
          /\ mon' = [mon EXCEPT !.day = d,
                                !.running = @ /\ ~signal,
                                !.pc = IF mon.running /\ ~signal THEN "loop" ELSE "returned"]
    /\ UNCHANGED <<grabVars, call, click>>

MonitorNext == MonitorRound \/ MonitorSleep

MonitorSpec == MonitorInit /\ [][MonitorNext]_vars

C37_StopsAfterSuccess ==
    /\ mon.success => mon.pc = "returned" /\ ~mon.running
    /\ \A i \in DOMAIN mon.calls : mon.calls[i].ok => mon.calls[i].round = mon.rounds

\* a capture has succeeded in a round after a round whose capture failed
C37_Witness ==
    /\ mon.success
    /\ mon.pc = "returned"
    /\ \E i \in DOMAIN mon.calls : ~mon.calls[i].ok /\ mon.calls[i].round < mon.rounds

(***************************************************************************)
(* The functions on their own: every call with every input                 *)
(***************************************************************************)
FnInit ==
    /\ config = [target_urls |-> <<RootUrl>>, clean_output_on_start |-> TRUE]
    /\ anchors1 = <<DetailUrl("1", "5"), DetailUrl("1", "6")>>
    /\ run = 0
    /\ pc = "idle"
    /\ now = 0
    /\ faults = 0
    /\ quick = 0
    /\ files = {}
    /\ dirs = {<<>>}
    /\ cap = IdleCap
    /\ batch = NoBatch
    /\ attempts = <<>>
    /\ writeLog = <<>>
    /\ returns = <<>>
    /\ summary = NoSummary
    /\ call = NoCall
    /\ click = NoClick
    /\ mon = NoMon

FnNext ==
    \/ GetTargetPageAfterClick
    \/ UrlToName
    \/ SavePaths
    \/ ExtractAssignmentsByTitle
    \/ ExtractCourseUrls
    \/ ClickThenGoBack

FnSpec == FnInit /\ [][FnNext]_vars

====
